---- MODULE Spec2Model ----
(***************************************************************************)
(* conda-env-tracker: the history of a conda environment, kept in a local  *)
(* directory per replica and published to a shared remote directory.       *)
(* The model covers the history data kept in history.yaml, the install     *)
(* handler that appends revisions, and the push / pull protocol.           *)
(***************************************************************************)
EXTENDS Integers, Sequences, FiniteSets, TLC

(***************************************************************************)
(* Bounds of the model                                                     *)
(***************************************************************************)
\* the longest history a replica builds: the creation revision and the
\* revisions appended by install
MaxRevs == 3

\* the longest list handed to utils.is_ordered_subset on its own
MaxLen == 3

\* the replicas (machines) that share one remote directory
Replicas == {1, 2}

\* package names a user installs or removes
Names == {"pandas", "pytest"}

\* the versions the package manager resolves a package to
Versions == {1}

(***************************************************************************)
(* Program constants                                                       *)
(***************************************************************************)
\* Python's None, for an absent History or Diff
None == [none |-> TRUE]
\* a Package made without a spec
NoSpec == [nospec |-> TRUE]
\* the "*" that history.yaml records for a spec without a version
Star == [star |-> TRUE]
NoVer == 0
EnvName == "env"
\* gateways/conda.py _get_env_file: the file update_conda_environment reads
ENV_FILE_LOOKUP == "conda-env.yaml"
\* gateways/io.py export_packages: the file Environment.export writes
ENV_FILE_EXPORT == "environment.yml"
HISTORY_FILE == "history.yaml"
INSTALL_R_FILE == "install.R"
REMOTE_FILE == "remote.yaml"
\* gateways/io.py copy_environment: the files push copies, in this order
CopyFileNames == <<"environment.yml", "history.yaml", "install.R">>
DefaultChannels == <<"conda-forge">>

(***************************************************************************)
(* Package (packages.py)                                                   *)
(***************************************************************************)
\* Package.__init__
Package(name, spec, version, build) ==
    [name |-> name, spec |-> spec, version |-> version, build |-> build]

\* A spec string: the bare name, or name=version=build
SpecOf(name, version, build) == [name |-> name, version |-> version, build |-> build]

NameSpec(name) == SpecOf(name, NoVer, NoVer)

\* Package.from_spec: the name is what precedes the first operator of the spec
PackageFromSpec(spec) == Package(spec.name, spec, NoVer, NoVer)

\* Package.spec_is_name
SpecIsName(p) == p.spec = NameSpec(p.name)

\* Package.__eq__ (asymmetric: the left operand's missing version or build is
\* not compared)
PackageEq(self, other) ==
    IF self.version # NoVer /\ self.version # other.version THEN FALSE
    ELSE IF self.build # NoVer /\ self.build # other.build THEN FALSE
    ELSE self.name = other.name /\ self.spec = other.spec

\* dict.__eq__ on two name -> Package dicts, left operand first
PackageDictEq(d1, d2) ==
    /\ DOMAIN d1 = DOMAIN d2
    /\ \A n \in DOMAIN d1 : PackageEq(d1[n], d2[n])

\* dict.__eq__ on two PackageRevision dicts (source -> name -> Package)
PackageRevisionEq(p1, p2) ==
    /\ DOMAIN p1 = DOMAIN p2
    /\ \A s \in DOMAIN p1 : PackageDictEq(p1[s], p2[s])

(***************************************************************************)
(* Small helpers on functions and sequences                                *)
(***************************************************************************)
EmptyFn == [x \in {} |-> None]

\* dict item assignment d[k] = v
Put(d, k, v) == [x \in DOMAIN d \cup {k} |-> IF x = k THEN v ELSE d[x]]

\* dict.pop(k, None)
Drop(d, k) == [x \in DOMAIN d \ {k} |-> d[x]]

\* dict.get(k, default)
Get(d, k, default) == IF k \in DOMAIN d THEN d[k] ELSE default

Range(s) == {s[i] : i \in DOMAIN s}

\* A variant of utils.is_ordered_subset that restarts the search of every
\* element at the head of the list
is_subset_restarting(set, subset) == \A i \in 1..Len(subset) : \E k \in 1..Len(set) : set[k] = subset[i]

RECURSIVE IsSubseqFrom(_, _, _, _)
\* the all(...) of is_ordered_subset: element i of subset is searched in what
\* the iterator over set has not yet consumed (position j onwards)
IsSubseqFrom(set, subset, i, j) ==
    IF i > Len(subset) THEN TRUE
    ELSE LET hits == {k \in j..Len(set) : set[k] = subset[i]}
         IN  IF hits = {} THEN FALSE
             ELSE LET k == CHOOSE m \in hits : \A o \in hits : m <= o
                  IN  IsSubseqFrom(set, subset, i + 1, k + 1)

\* utils.is_ordered_subset(set, subset)
is_ordered_subset(set, subset) == IsSubseqFrom(set, subset, 1, 1)

(***************************************************************************)
(* PackageRevision (history/packages.py): source -> name -> Package        *)
(***************************************************************************)
\* PackageRevision.update_packages
update_packages(self, packages, source) ==
    LET existing == Get(self, source, EmptyFn)
        names == {p.name : p \in packages}
        new == [n \in DOMAIN existing \cup names |->
                  IF n \in names THEN CHOOSE p \in packages : p.name = n
                  ELSE existing[n]]
    IN  Put(self, source, new)

\* PackageRevision.update_versions
update_versions(self, dependencies) ==
    [s \in DOMAIN self |->
       [n \in DOMAIN self[s] |->
          LET source_dependencies == Get(dependencies, s, EmptyFn)
              dependency == Get(source_dependencies, n, Package(n, NoSpec, NoVer, NoVer))
          IN  [self[s][n] EXCEPT !.version = dependency.version,
                                 !.build = IF dependency.build # NoVer
                                           THEN dependency.build ELSE @]]]

\* PackageRevision.remove_packages
remove_packages(self, packages, source) ==
    [self EXCEPT ![source] =
       [n \in DOMAIN self[source] \ {p.name : p \in packages} |-> self[source][n]]]

\* PackageRevision.export: "*" stands for a spec that is just the name, the
\* resolved version is not written, an empty source is left out
PackageRevisionExport(self) ==
    LET nonempty == {s \in DOMAIN self : DOMAIN self[s] # {}}
    IN  [s \in nonempty |->
           [n \in DOMAIN self[s] |->
              IF SpecIsName(self[s][n]) THEN Star ELSE self[s][n].spec]]

\* PackageRevision.parse
PackageRevisionParse(section) ==
    [s \in DOMAIN section |->
       [n \in DOMAIN section[s] |->
          IF section[s][n] = Star THEN PackageFromSpec(NameSpec(n))
          ELSE Package(n, section[s][n], NoVer, NoVer)]]

\* PackageRevision.create
PackageRevisionCreate(packages, dependencies) ==
    update_versions(update_packages(EmptyFn, packages, "conda"), dependencies)

(***************************************************************************)
(* Diff (history/diff.py): source -> section -> name -> Package            *)
(***************************************************************************)
\* Diff._get_dependencies_diff, the updated part
DependenciesDiffUpdated(current_dependencies, current_packages) ==
    LET names == {n \in DOMAIN current_packages :
                    /\ n \in DOMAIN current_dependencies
                    /\ current_packages[n].version # current_dependencies[n].version}
    IN  [n \in names |->
           Package(current_packages[n].name, current_packages[n].spec,
                   current_dependencies[n].version, current_dependencies[n].build)]

\* Diff._get_dependencies_diff, the removed part
DependenciesDiffRemoved(current_dependencies, current_packages) ==
    [n \in {m \in DOMAIN current_packages : m \notin DOMAIN current_dependencies} |->
       current_packages[n]]

\* A variant of Diff.compute in which a changed version replaces the package
\* that was handed in
DiffComputeUpdateFirst(dependencies, packages, upsert_packages, source) ==
    LET source_packages == Get(packages, source, EmptyFn)
        source_dependencies == Get(dependencies, source, EmptyFn)
        explicit == {p.name : p \in upsert_packages}
        update == DependenciesDiffUpdated(source_dependencies, source_packages)
        remove == DependenciesDiffRemoved(source_dependencies, source_packages)
        upsert == [n \in explicit \cup DOMAIN update |->
                     IF n \in DOMAIN update
                     THEN update[n]
                     ELSE CHOOSE p \in upsert_packages : p.name = n]
        sections == (IF DOMAIN upsert # {} THEN {"upsert"} ELSE {})
                    \cup (IF DOMAIN remove # {} THEN {"remove"} ELSE {})
    IN  [s \in {source} |->
           [sec \in sections |-> IF sec = "upsert" THEN upsert ELSE remove]]

\* Diff.compute
DiffCompute(dependencies, packages, upsert_packages, source) ==
    LET source_packages == Get(packages, source, EmptyFn)
        source_dependencies == Get(dependencies, source, EmptyFn)
        explicit == {p.name : p \in upsert_packages}
        update == DependenciesDiffUpdated(source_dependencies, source_packages)
        remove == DependenciesDiffRemoved(source_dependencies, source_packages)
        upsert == [n \in explicit \cup DOMAIN update |->
                     IF n \in explicit
                     THEN CHOOSE p \in upsert_packages : p.name = n
                     ELSE update[n]]
        sections == (IF DOMAIN upsert # {} THEN {"upsert"} ELSE {})
                    \cup (IF DOMAIN remove # {} THEN {"remove"} ELSE {})
    IN  [s \in {source} |->
           [sec \in sections |-> IF sec = "upsert" THEN upsert ELSE remove]]

\* Diff.create
DiffCreate(packages, dependencies, source) ==
    LET source_dependencies == Get(dependencies, source, EmptyFn)
    IN  [s \in {source} |->
           [sec \in {"upsert"} |->
              [n \in {p.name : p \in packages} |->
                 LET p == CHOOSE q \in packages : q.name = n
                 IN  Package(p.name, p.spec, source_dependencies[n].version,
                             source_dependencies[n].build)]]]

\* The explicitly upserted entries of a diff are the Package objects that
\* History.update_packages also stores in history.packages, so the versions
\* that update_versions and get_package_specs assign later show in the diff.
DiffWithResolvedVersions(diff, packages) ==
    [s \in DOMAIN diff |->
       [sec \in DOMAIN diff[s] |->
          [n \in DOMAIN diff[s][sec] |->
             IF sec = "upsert" /\ s \in DOMAIN packages /\ n \in DOMAIN packages[s]
                /\ diff[s][sec][n].version = NoVer
             THEN packages[s][n]
             ELSE diff[s][sec][n]]]]

\* Diff.export: a removed package is written as its name, an upserted one as
\* name=version without the build
DiffExport(self) ==
    [s \in DOMAIN self |->
       [sec \in DOMAIN self[s] |->
          {IF sec = "remove" \/ s = "r" THEN <<n>>
           ELSE <<n, self[s][sec][n].version>> : n \in DOMAIN self[s][sec]}]]

\* Diff.parse
DiffParse(section) ==
    [s \in DOMAIN section |->
       [sec \in DOMAIN section[s] |->
          [n \in {spec[1] : spec \in section[s][sec]} |->
             IF sec = "remove" \/ s = "r" THEN PackageFromSpec(NameSpec(n))
             ELSE LET spec == CHOOSE x \in section[s][sec] : x[1] = n
                  IN  Package(n, NameSpec(n), spec[2], NoVer)]]]

(***************************************************************************)
(* Logs and Actions (history/logs.py, history/actions.py, gateways/conda.py)*)
(* A command string is kept as the record of its parts.                    *)
(***************************************************************************)
\* get_conda_create_command / get_conda_install_command /
\* get_conda_remove_command: "<cmd> --name env <spec>", the command of one
\* package.  A log carries the spec the user typed, an action the spec
\* name=version=build of get_package_specs.
Command(cmd, spec) == [cmd |-> cmd, spec |-> spec]

\* Actions.get_package_specs for one package (the caller has checked that the
\* package is a dependency)
get_package_specs(name, dependencies) ==
    SpecOf(name, dependencies[name].version, dependencies[name].build)

(***************************************************************************)
(* Revisions and History (history/revisions.py, history/history.py)        *)
(***************************************************************************)
\* Debug.update: the entry appended for one revision.  Two revisions made
\* independently never carry the same entry: it names the replica that ran
\* the command and the time on that replica, which is the number of the
\* revision.
DebugEntry(r, now) == [platform |-> r, timestamp |-> now]

\* History.__init__ with the five parallel sequences of Revisions
History(name, id, channels, packages, logs, actions, rpackages, diffs, debug) ==
    [name |-> name, id |-> id, channels |-> channels, packages |-> packages,
     logs |-> logs, actions |-> actions, rpackages |-> rpackages,
     diffs |-> diffs, debug |-> debug, diff |-> None]

\* Revisions.append_revision, called by History.append
append_revision(h, log, action, r) ==
    [h EXCEPT !.logs = Append(@, log),
              !.actions = Append(@, action),
              !.rpackages = Append(@, h.packages),
              !.diffs = Append(@, h.diff),
              !.debug = Append(@, DebugEntry(r, Len(h.logs) + 1))]

\* Revisions.export
RevisionsExport(h) ==
    [i \in 1..Len(h.logs) |->
       [packages |-> PackageRevisionExport(h.rpackages[i]),
        diff |-> DiffExport(h.diffs[i]),
        log |-> h.logs[i],
        action |-> h.actions[i],
        debug |-> h.debug[i]]]

\* History.export
HistoryExport(h) ==
    [name |-> h.name, id |-> h.id, channels |-> h.channels,
     packages |-> PackageRevisionExport(h.packages),
     revisions |-> RevisionsExport(h)]

\* History.parse with Revisions.parse
HistoryParse(content) ==
    LET revs == content.revisions
    IN  [name |-> content.name, id |-> content.id, channels |-> content.channels,
         packages |-> PackageRevisionParse(content.packages),
         logs |-> [i \in 1..Len(revs) |-> revs[i].log],
         actions |-> [i \in 1..Len(revs) |-> revs[i].action],
         rpackages |-> [i \in 1..Len(revs) |-> PackageRevisionParse(revs[i].packages)],
         diffs |-> [i \in 1..Len(revs) |-> DiffParse(revs[i].diff)],
         debug |-> [i \in 1..Len(revs) |-> revs[i].debug],
         diff |-> None]

\* Revisions.__eq__: logs, actions, packages and debug (not the diffs)
RevisionsEq(h1, h2) ==
    /\ h1.logs = h2.logs
    /\ h1.actions = h2.actions
    /\ Len(h1.rpackages) = Len(h2.rpackages)
    /\ \A i \in 1..Len(h1.rpackages) : PackageRevisionEq(h1.rpackages[i], h2.rpackages[i])
    /\ h1.debug = h2.debug

\* History.__eq__, self on the left; None is not a History
HistoryEq(self, other) ==
    IF self = None THEN other = None
    ELSE IF other = None THEN FALSE
    ELSE /\ self.name = other.name
         /\ self.id = other.id
         /\ self.channels = other.channels
         /\ RevisionsEq(self, other)
         /\ PackageRevisionEq(self.packages, other.packages)

(***************************************************************************)
(* Environment (env.py) and the files of a directory (gateways/io.py)      *)
(* A directory is a function from the names of its files to their contents.*)
(***************************************************************************)
EmptyDir == EmptyFn

\* gateways/conda.py get_dependencies: the live conda packages of a replica
Dependencies(installed) == [s \in {"conda"} |-> installed]

\* one line of `conda list`: name, version, build
Dependency(name, version) == Package(name, NameSpec(name), version, version)

\* EnvIO.get_history
get_history(dir) ==
    IF HISTORY_FILE \in DOMAIN dir THEN HistoryParse(dir[HISTORY_FILE]) ELSE None

\* Environment.read with Environment.__init__: the history of the local
\* directory, its package versions refreshed from the live dependencies
EnvironmentRead(dir, dependencies) ==
    LET history == get_history(dir)
    IN  IF history = None THEN None
        ELSE [history EXCEPT !.packages = update_versions(@, dependencies)]

\* Environment._export_packages: the contents of environment.yml
ExportPackages(history, dependencies) ==
    [name |-> history.name,
     channels |-> IF "nodefaults" \in Range(history.channels) THEN history.channels
                  ELSE Append(history.channels, "nodefaults"),
     dependencies |-> {<<n, dependencies["conda"][n].version>> :
                          n \in DOMAIN Get(history.packages, "conda", EmptyFn)}]

\* Environment.export: write_history_file, _export_packages and
\* _export_install_r_if_necessary (no R package: install.R is deleted)
EnvironmentExport(dir, history, dependencies) ==
    LET d1 == Put(dir, HISTORY_FILE, HistoryExport(history))
        d2 == Put(d1, ENV_FILE_EXPORT, ExportPackages(history, dependencies))
    IN  Drop(d2, INSTALL_R_FILE)

\* Environment.validate_packages: the names it finds removed
ValidateRemoved(history, dependencies, source) ==
    {n \in DOMAIN Get(history.packages, source, EmptyFn) :
        n \notin DOMAIN Get(dependencies, source, EmptyFn)}

\* A variant of Environment.validate_packages that raises whatever it finds
ValidateAlwaysRaises(history, dependencies, installed_names, source) == TRUE

\* Environment.validate_packages: TRUE when it raises
\* CondaEnvTrackerInstallError
ValidateRaises(history, dependencies, installed_names, source) ==
    ValidateRemoved(history, dependencies, source) \cap installed_names # {}

\* Environment.validate_packages: the history after the removed packages are
\* popped
validate_packages(history, dependencies, source) ==
    LET removed == ValidateRemoved(history, dependencies, source)
    IN  IF removed = {} THEN history
        ELSE [history EXCEPT !.packages[source] =
                 [n \in DOMAIN @ \ removed |-> @[n]]]

\* History.update_packages
HistoryUpdatePackages(history, dependencies, packages, source) ==
    LET diff == DiffCompute(dependencies, history.packages, packages, source)
        p1 == IF packages # {} THEN update_packages(history.packages, packages, source)
              ELSE history.packages
        p2 == update_versions(p1, dependencies)
    IN  [history EXCEPT !.diff = DiffWithResolvedVersions(diff, p2), !.packages = p2]

\* History.remove_packages
HistoryRemovePackages(history, dependencies, packages, source) ==
    LET diff == DiffCompute(dependencies, history.packages, {}, source)
        p1 == remove_packages(history.packages, packages, source)
    IN  [history EXCEPT !.diff = diff, !.packages = update_versions(p1, dependencies)]

\* CondaHandler._update_history with get_conda_install_command, for one
\* package given by its spec; the caller has checked ValidateRaises
update_history_install(history, dependencies, spec, r) ==
    LET packages == {PackageFromSpec(spec)}
        h1 == HistoryUpdatePackages(history, dependencies, packages, "conda")
        h2 == validate_packages(h1, dependencies, "conda")
    IN  append_revision(h2, Command("conda install", spec),
                        Command("conda install",
                                get_package_specs(spec.name, dependencies["conda"])),
                        r)

\* CondaHandler.update_history_remove for one package
update_history_remove(history, dependencies, name, r) ==
    LET packages == {PackageFromSpec(NameSpec(name))}
        h1 == HistoryRemovePackages(history, dependencies, packages, "conda")
        h2 == validate_packages(h1, dependencies, "conda")
    IN  append_revision(h2, Command("conda remove", NameSpec(name)),
                        Command("conda remove", NameSpec(name)), r)

(***************************************************************************)
(* State                                                                   *)
(***************************************************************************)
VARIABLES
    local,    \* local[r]: the files of replica r's directory ~/.cet/envs/env
    remote,   \* the files of the shared remote directory
    live,     \* live[r]: the conda packages installed in replica r's environment
    last      \* the last command run: what it was and how it ended

vars == <<local, remote, live, last>>

\* Environment.create for the lineage with this id, made on replica r
CreatedHistory(id, r) ==
    LET dependencies == Dependencies([n \in {"python"} |-> Dependency("python", 1)])
        packages == {PackageFromSpec(NameSpec("python"))}
        current == PackageRevisionCreate(packages, dependencies)
    IN  History(EnvName, id, DefaultChannels, current,
                <<Command("conda create", NameSpec("python"))>>,
                <<Command("conda create", SpecOf("python", 1, 1))>>,
                <<current>>,
                <<DiffCreate(packages, dependencies, "conda")>>,
                <<DebugEntry(r, 1)>>)

\* the directory of a replica right after Environment.create and `cet remote`
CreatedDir(id, r) ==
    EnvironmentExport([f \in {REMOTE_FILE} |-> "remote"], CreatedHistory(id, r),
                      Dependencies([n \in {"python"} |-> Dependency("python", 1)]))

\* Replica 1 has created lineage A.  Replica 2 holds a copy of it, or has
\* created its own lineage B, or has no history yet.
Init ==
    /\ \E second \in {"copy", "own", "absent"} :
         /\ local = [r \in Replicas |->
                       IF r = 1 THEN CreatedDir("A", 1)
                       ELSE IF second = "copy" THEN CreatedDir("A", 1)
                       ELSE IF second = "own" THEN CreatedDir("B", r)
                       ELSE [f \in {REMOTE_FILE} |-> "remote"]]
         /\ live = [r \in Replicas |->
                      IF r = 1 \/ second # "absent"
                      THEN [n \in {"python"} |-> Dependency("python", 1)]
                      ELSE EmptyFn]
    /\ remote = EmptyDir
    /\ last = [op |-> "init"]

\* env.history of Environment.read on replica r, as main.conda_install,
\* main.push and main.pull obtain it
LocalHistory(r) == EnvironmentRead(local[r], Dependencies(live[r]))

\* remote_io.get_history() of push.push and pull.pull
RemoteHistory == get_history(remote)

(***************************************************************************)
(* install (main.py conda_install, conda.py)                               *)
(***************************************************************************)
\* main.conda_install -> CondaHandler.install, for a conda command that
\* succeeds (a failing one raises before anything is changed).  version: what
\* the solver resolved the package to.
Install(r, name, version) ==
    \E env \in {LocalHistory(r)} :
      /\ env # None
      /\ Len(env.logs) < MaxRevs
      /\ LET installed == Put(live[r], name, Dependency(name, version))
             dependencies == Dependencies(installed)
         IN  \E history \in {update_history_install(env, dependencies, NameSpec(name), r)} :
               /\ live' = [live EXCEPT ![r] = installed]
               /\ local' = [local EXCEPT ![r] = EnvironmentExport(@, history, dependencies)]
               /\ last' = [op |-> "install", r |-> r]
               /\ UNCHANGED remote

(***************************************************************************)
(* push (push.py, main.py push)                                            *)
(***************************************************************************)
RECURSIVE CopyFrom(_, _, _, _)
\* EnvIO.copy_environment from file i of CopyFileNames on: each file that
\* exists in the source directory is copied.  fault: the index of the file
\* whose shutil.copy raises, 0 when none does.
CopyFrom(src, dst, i, fault) ==
    IF i > Len(CopyFileNames) THEN [dir |-> dst, raised |-> FALSE]
    ELSE IF CopyFileNames[i] \notin DOMAIN src THEN CopyFrom(src, dst, i + 1, fault)
    ELSE IF fault = i THEN [dir |-> dst, raised |-> TRUE]
    ELSE CopyFrom(src, Put(dst, CopyFileNames[i], src[CopyFileNames[i]]), i + 1, fault)

\* A variant of EnvIO.copy_environment that copies only the files the
\* destination does not have yet
CopyOnlyMissing(src, dst, fault) ==
    CopyFrom([f \in DOMAIN src \ DOMAIN dst |-> src[f]], dst, 1, fault)

\* EnvIO.copy_environment
copy_environment(src, dst, fault) == CopyFrom(src, dst, 1, fault)

\* A variant of the check of push.push that compares the actions and logs as
\* sets, without their order
PushRejectedUnordered(history, remote_history) ==
    /\ remote_history # None
    /\ \/ ~(Range(remote_history.actions) \subseteq Range(history.actions))
       \/ ~(Range(remote_history.logs) \subseteq Range(history.logs))

\* A variant of the check of push.push that rejects nothing
PushNeverRejected(history, remote_history) == FALSE

\* push.push: the check that rejects the push
PushRejected(history, remote_history) ==
    /\ remote_history # None
    /\ \/ ~is_ordered_subset(history.actions, remote_history.actions)
       \/ ~is_ordered_subset(history.logs, remote_history.logs)

\* push.push up to its copy_environment call: how it ends when it ends before
\* copying, "copy" otherwise
PushVerdict(history, remote_history) ==
    IF HistoryEq(remote_history, history) THEN "Nothing to push."
    ELSE IF history = None THEN "AttributeError"
    ELSE IF PushRejected(history, remote_history) THEN "CondaEnvTrackerPushError"
    ELSE "copy"

\* main.push: Environment.read, then push.push.  fault: the file whose copy
\* raises, 0 for none.
Push(r) ==
    \E history \in {LocalHistory(r)}, remote_history \in {RemoteHistory} :
    \E verdict \in {PushVerdict(history, remote_history)} :
        \/ /\ verdict # "copy"
           /\ last' = [op |-> "push", r |-> r, outcome |-> verdict,
                       before |-> IF remote_history = None THEN <<>>
                                  ELSE remote_history.actions]
           /\ UNCHANGED <<local, live, remote>>
        \/ /\ verdict = "copy"
           /\ \E fault \in 0..Len(CopyFileNames) :
                \E copied \in {copy_environment(local[r], remote, fault)} :
                  /\ IF fault = 0 THEN TRUE ELSE CopyFileNames[fault] \in DOMAIN local[r]
                  /\ remote' = copied.dir
                  /\ last' = [op |-> "push", r |-> r,
                              outcome |-> IF copied.raised THEN "OSError" ELSE "pushed",
                              before |-> IF remote_history = None THEN <<>>
                                         ELSE remote_history.actions]
                  /\ UNCHANGED <<local, live>>

(***************************************************************************)
(* pull (pull.py, main.py pull)                                            *)
(***************************************************************************)
\* A variant of pull._no_new_actions_in_remote with local and remote swapped
NoNewActionsSwapped(local_history, remote_history) ==
    is_ordered_subset(remote_history.actions, local_history.actions)

\* pull._no_new_actions_in_remote
no_new_actions_in_remote(local_history, remote_history) ==
    is_ordered_subset(local_history.actions, remote_history.actions)

\* pull._no_new_actions_in_local
no_new_actions_in_local(local_history, remote_history) ==
    is_ordered_subset(remote_history.actions, local_history.actions)

\* pull._actions_in_different_order
actions_in_different_order(local_history, remote_history) ==
    Range(remote_history.actions) \subseteq Range(local_history.actions)

\* A variant of pull._nothing_to_pull that also wants local's actions to be an
\* ordered subset of remote's
NothingToPullBothWays(local_history, remote_history) ==
    IF remote_history = None THEN TRUE
    ELSE IF local_history = None THEN FALSE
    ELSE /\ is_ordered_subset(local_history.actions, remote_history.actions)
         /\ is_ordered_subset(remote_history.actions, local_history.actions)

\* pull._nothing_to_pull
nothing_to_pull(local_history, remote_history) ==
    IF remote_history = None THEN TRUE
    ELSE IF local_history # None /\ no_new_actions_in_remote(local_history, remote_history)
    THEN TRUE
    ELSE FALSE

\* pull._create_env_with_new_id: the condition of its outer if
different_id(local_history, remote_history) ==
    /\ local_history # None
    /\ remote_history # None
    /\ local_history.id # remote_history.id

\* The case pull ends up in, following the order of its if statements
PullCase(local_history, remote_history) ==
    IF different_id(local_history, remote_history) THEN "new id"
    ELSE IF nothing_to_pull(local_history, remote_history) THEN "nothing to pull"
    ELSE IF local_history = None /\ remote_history # None THEN "no local"
    ELSE IF no_new_actions_in_local(local_history, remote_history) THEN "local behind"
    ELSE IF actions_in_different_order(local_history, remote_history) THEN "different order"
    ELSE "conflict"

\* The prompt_yes_no call each case makes when the yes flag is not set
PromptOf(case, yes) ==
    IF yes \/ case \in {"nothing to pull", "no local", "local behind"} THEN "none"
    ELSE case

\* gateways/conda.py _get_env_file: the error it raises
NO_ENV_FILE == "CondaEnvTrackerCondaError: No environment file to update from"

\* gateways/conda.py _get_env_file: TRUE when it raises
EnvFileMissing(dir) == ENV_FILE_LOOKUP \notin DOMAIN dir

\* gateways/conda.py update_conda_environment, `conda env update --prune`:
\* the live packages become the pinned ones of the environment file
update_conda_environment(dir) ==
    [n \in {d[1] : d \in dir[ENV_FILE_LOOKUP].dependencies} |->
       LET d == CHOOSE x \in dir[ENV_FILE_LOOKUP].dependencies : x[1] = n
       IN  Dependency(n, d[2])]

\* pull._r_env_needs_updating: no command of the model starts with R_COMMAND
r_env_needs_updating(local_history, remote_history) ==
    LET new_actions == IF local_history = None THEN Range(remote_history.actions)
                       ELSE Range(remote_history.actions) \ Range(local_history.actions)
    IN  \E action \in new_actions : action.cmd = "R --quiet --vanilla"

\* A variant of EnvIO.overwrite_local that stops after shutil.copytree
OverwriteWithoutExtraFiles(local_dir, remote_dir) == remote_dir

\* EnvIO.overwrite_local: the remote files, and the local files that have no
\* remote counterpart
overwrite_local(local_dir, remote_dir) ==
    [f \in DOMAIN remote_dir \cup DOMAIN local_dir |->
       IF f \in DOMAIN remote_dir THEN remote_dir[f] ELSE local_dir[f]]

\* Environment.validate: TRUE when its validate_packages call raises
\* CondaEnvTrackerInstallError (every conda package of the history is passed
\* as installed)
ValidateAllRaises(history, dependencies) ==
    ValidateRaises(history, dependencies,
                   DOMAIN Get(history.packages, "conda", EmptyFn), "conda")

\* pull.replace_local_with_remote.  ok: the `conda env update` command
\* succeeded.
replace_local_with_remote(local_dir, installed, remote_dir, remote_history, ok) ==
    IF EnvFileMissing(remote_dir)
    THEN [outcome |-> NO_ENV_FILE, dir |-> local_dir, live |-> installed]
    ELSE IF ~ok
    THEN [outcome |-> "CondaEnvTrackerCondaError", dir |-> local_dir, live |-> installed]
    ELSE LET updated == update_conda_environment(remote_dir)
             dir == overwrite_local(local_dir, remote_dir)
         IN  IF ValidateAllRaises(remote_history, Dependencies(updated))
             THEN [outcome |-> "CondaEnvTrackerInstallError", dir |-> dir, live |-> updated]
             ELSE [outcome |-> "replaced", dir |-> dir, live |-> updated]

\* list.index: the first position of a log in the logs
IndexOf(logs, log) == CHOOSE i \in 1..Len(logs) : logs[i] = log /\ \A j \in 1..(i - 1) : logs[j] # log

\* merge_conflicting_changes: the logs of local that are not logs of remote,
\* in local order
ExtraLogs(local_history, remote_history) ==
    SelectSeq(local_history.logs, LAMBDA log : log \notin Range(remote_history.logs))

\* The replays below rebuild an environment st: its history, its live
\* packages, its directory and how the replay stands (outcome).

\* the end of CondaHandler.remove in a replay: the history and the files
\* are exported
ReplayRemoveExport(st, h, installed) ==
    [st EXCEPT !.history = h, !.live = installed,
               !.dir = EnvironmentExport(@, h, Dependencies(installed))]

\* Logs.extra_removed_packages, then CondaHandler.remove
replay_remove(st, name, installed, r, ok) ==
    IF ~ok \/ name \notin DOMAIN st.live
    THEN [st EXCEPT !.outcome = "CondaEnvTrackerCondaError"]
    ELSE ReplayRemoveExport(st, update_history_remove(st.history, Dependencies(installed), name, r),
                            installed)

\* the install of update_from_extra_log: CondaHandler.install of the pinned
\* spec, then env.history.logs[-1] = log and Logs.extract_packages (the spec
\* as the log has it) on the history in memory; the files on disk are the
\* ones CondaHandler.install exported
ReplayInstallExport(st, h1, log, installed) ==
    [st EXCEPT !.history = [h1 EXCEPT !.logs[Len(h1.logs)] = log,
                                      !.packages = update_packages(@, {PackageFromSpec(log.spec)}, "conda")],
               !.live = installed,
               !.dir = EnvironmentExport(@, h1, Dependencies(installed))]

\* CondaHandler.install in a replay
replay_install(st, spec, log, installed, r, ok) ==
    IF ~ok
    THEN [st EXCEPT !.outcome = "CondaEnvTrackerCondaError"]
    ELSE ReplayInstallExport(st, update_history_install(st.history, Dependencies(installed), spec, r),
                             log, installed)

\* Actions.extract_packages on the local action at the log's index
replay_pinned(st, spec, log, r, ok) ==
    replay_install(st, spec, log,
                   Put(st.live, spec.name,
                       Package(spec.name, NameSpec(spec.name), spec.version, spec.build)),
                   r, ok)

\* pull.update_from_extra_log of one extra log.  ok: the conda command of the
\* replay succeeded.
update_from_extra_log(st, local_history, log, r, ok) ==
    IF log.cmd = "conda remove"
    THEN replay_remove(st, log.spec.name, Drop(st.live, log.spec.name), r, ok)
    ELSE replay_pinned(st, local_history.actions[IndexOf(local_history.logs, log)].spec,
                       log, r, ok)

RECURSIVE ReplayFrom(_, _, _, _, _, _)
\* the loop `for log in extra_logs` of merge_conflicting_changes from log i
\* on; fail: the number of the replay whose conda command fails, 0 for none
ReplayFrom(st, local_history, extra_logs, i, r, fail) ==
    IF i > Len(extra_logs) \/ st.outcome # "running" THEN st
    ELSE ReplayFrom(update_from_extra_log(st, local_history, extra_logs[i], r, fail # i),
                    local_history, extra_logs, i + 1, r, fail)

\* the end of merge_conflicting_changes, after the replays (st1):
\* validate_packages, then export
MergeFinish(st1) ==
    IF st1.outcome # "running"
    THEN [outcome |-> st1.outcome, dir |-> st1.dir, live |-> st1.live]
    ELSE IF ValidateAllRaises(st1.history, Dependencies(st1.live))
    THEN [outcome |-> "CondaEnvTrackerInstallError", dir |-> st1.dir, live |-> st1.live]
    ELSE [outcome |-> "merged", live |-> st1.live,
          dir |-> EnvironmentExport(st1.dir, st1.history, Dependencies(st1.live))]

\* merge_conflicting_changes once the environment is updated from the remote
\* file and local is overwritten: Environment.read, validate, the replays
MergeReplay(dir, updated, local_history, remote_history, r, fail) ==
    IF ValidateAllRaises(remote_history, Dependencies(updated))
    THEN [outcome |-> "CondaEnvTrackerInstallError", dir |-> dir, live |-> updated]
    ELSE MergeFinish(ReplayFrom([outcome |-> "running", history |-> remote_history,
                                 live |-> updated, dir |-> dir],
                                local_history, ExtraLogs(local_history, remote_history),
                                1, r, fail))

MergeUpdated(local_dir, updated, local_history, remote_dir, r, fail) ==
    MergeReplay(overwrite_local(local_dir, remote_dir), updated, local_history,
                EnvironmentRead(remote_dir, Dependencies(updated)), r, fail)

\* pull.merge_conflicting_changes.  ok: the `conda env update` command
\* succeeded.
merge_conflicting_changes(local_dir, installed, local_history, remote_dir, r, ok, fail) ==
    IF EnvFileMissing(remote_dir)
    THEN [outcome |-> NO_ENV_FILE, dir |-> local_dir, live |-> installed]
    ELSE IF ~ok
    THEN [outcome |-> "CondaEnvTrackerCondaError", dir |-> local_dir, live |-> installed]
    ELSE MergeUpdated(local_dir, update_conda_environment(remote_dir), local_history,
                      remote_dir, r, fail)

\* A variant of pull.pull that goes on whatever the answer to its prompt is
PullResultIgnoringAnswer(r, local_history, remote_history, case, yes, answer, ok, fail) ==
    LET unchanged == [dir |-> local[r], live |-> live[r]]
    IN  IF REMOTE_FILE \notin DOMAIN local[r]
        THEN [outcome |-> "CondaEnvTrackerPullError: no remote"] @@ unchanged
        ELSE IF case = "nothing to pull"
        THEN [outcome |-> "Nothing to pull."] @@ unchanged
        ELSE IF case = "conflict"
        THEN merge_conflicting_changes(local[r], live[r], local_history, remote, r, ok, fail)
        ELSE replace_local_with_remote(local[r], live[r], remote, remote_history, ok)

\* pull.pull on the environment read by main.pull.  yes: the yes flag;
\* answer: what prompt_yes_no returns if it is called.
PullResult(r, local_history, remote_history, case, yes, answer, ok, fail) ==
    LET unchanged == [dir |-> local[r], live |-> live[r]]
        consent == yes \/ answer
    IN  IF REMOTE_FILE \notin DOMAIN local[r]
        THEN [outcome |-> "CondaEnvTrackerPullError: no remote"] @@ unchanged
        ELSE IF case = "nothing to pull"
        THEN [outcome |-> "Nothing to pull."] @@ unchanged
        ELSE IF case = "new id" /\ ~consent
        THEN [outcome |-> "CondaEnvTrackerCreationError"] @@ unchanged
        ELSE IF case = "different order" /\ ~consent
        THEN [outcome |-> "CondaEnvTrackerPullError: different order"] @@ unchanged
        ELSE IF case = "conflict" /\ ~consent
        THEN [outcome |-> "CondaEnvTrackerPullError: conflict"] @@ unchanged
        ELSE IF case = "conflict"
        THEN merge_conflicting_changes(local[r], live[r], local_history, remote, r, ok, fail)
        ELSE replace_local_with_remote(local[r], live[r], remote, remote_history, ok)

\* The inputs a pull does not consult are not enumerated: the answer when no
\* prompt is shown, the results of conda commands that are not run.
PullConsults(local_history, remote_history, case, yes, answer, ok, fail) ==
    LET updates == /\ case # "nothing to pull"
                   /\ PromptOf(case, yes) = "none" \/ answer
                   /\ ~EnvFileMissing(remote)
    IN  /\ PromptOf(case, yes) = "none" => answer
        /\ ~updates => ok
        /\ IF updates /\ ok /\ case = "conflict"
           THEN fail <= Len(ExtraLogs(local_history, remote_history))
           ELSE fail = 0

\* main.pull: Environment.read, then pull.pull.  last records the inputs of
\* the pull, the case it took and how it ended.
Pull(r) ==
    \E local_history \in {LocalHistory(r)}, remote_history \in {RemoteHistory} :
    \E case \in {PullCase(local_history, remote_history)} :
        \E yes \in BOOLEAN, answer \in BOOLEAN, ok \in BOOLEAN, fail \in 0..MaxRevs :
          /\ PullConsults(local_history, remote_history, case, yes, answer, ok, fail)
          /\ \E res \in {PullResult(r, local_history, remote_history, case,
                                    yes, answer, ok, fail)} :
              /\ local' = [local EXCEPT ![r] = res.dir]
              /\ live' = [live EXCEPT ![r] = res.live]
              /\ last' = [op |-> "pull", r |-> r, yes |-> yes, answer |-> answer,
                          case |-> case, outcome |-> res.outcome]
              /\ UNCHANGED remote

Next ==
    \/ \E r \in Replicas, name \in Names, version \in Versions : Install(r, name, version)
    \/ \E r \in Replicas : Push(r)
    \/ \E r \in Replicas : Pull(r)

Spec == Init /\ [][Next]_vars

(***************************************************************************)
(* utils.is_ordered_subset on its own: the lists are drawn by the initial  *)
(* state, the one step applies the function to them.                       *)
(***************************************************************************)
\* what the lists hold: action or log strings
Elements == {"a", "b", "c"}

Lists == UNION {[1..n -> Elements] : n \in 0..MaxLen}

\* the replicas and the remote play no part
Idle ==
    /\ local = [r \in Replicas |-> EmptyDir]
    /\ live = [r \in Replicas |-> EmptyFn]
    /\ remote = EmptyDir

InitOrderedSubset ==
    /\ Idle
    /\ \E set \in Lists, subset \in Lists :
         last = [op |-> "lists", set |-> set, subset |-> subset]

CallOrderedSubset ==
    /\ last.op = "lists"
    /\ last' = [op |-> "is_ordered_subset", set |-> last.set, subset |-> last.subset,
                result |-> is_ordered_subset(last.set, last.subset)]
    /\ UNCHANGED <<local, live, remote>>

SpecOrderedSubset == InitOrderedSubset /\ [][CallOrderedSubset]_vars

(***************************************************************************)
(* One process working on one Environment object (env.py, conda.py)        *)
(* A Package object is mutable and may be held by more than one container: *)
(* history.packages and a Diff hold the same object when Diff.compute is   *)
(* handed it.  The objects of the process live in a heap; a container      *)
(* holds a reference to a shared object, or the value of an object that    *)
(* nothing else holds.                                                     *)
(***************************************************************************)
\* the versions conda resolves a package to in this part of the model
ResolvedVersions == {1, 2}

\* the package the commands of the process ask for; python is there from
\* the creation of the environment
Asked == {"pandas"}

\* a reference to the object with this identity (the number of the revision
\* being made when the object was constructed, 0 for Environment.read, and
\* the package name)
Ref(id) == [ref |-> id]

IsRef(slot) == DOMAIN slot = {"ref"}

\* the Package a container entry stands for
Deref(heap, slot) == IF IsRef(slot) THEN heap[slot.ref] ELSE slot

\* a PackageRevision whose entries are read through the heap
ResolvePackages(heap, packages) ==
    [s \in DOMAIN packages |->
       [n \in DOMAIN packages[s] |-> Deref(heap, packages[s][n])]]

\* a Diff whose entries are read through the heap
ResolveDiff(heap, diff) ==
    [s \in DOMAIN diff |->
       [sec \in DOMAIN diff[s] |->
          [n \in DOMAIN diff[s][sec] |-> Deref(heap, diff[s][sec][n])]]]

\* the History of the process as its attributes read at this moment
Resolved(e) ==
    [e.history EXCEPT
       !.packages = ResolvePackages(e.heap, e.history.packages),
       !.rpackages = [i \in 1..Len(e.history.rpackages) |->
                        ResolvePackages(e.heap, e.history.rpackages[i])],
       !.diffs = [i \in 1..Len(e.history.diffs) |->
                    ResolveDiff(e.heap, e.history.diffs[i])],
       !.diff = IF e.history.diff = None THEN None
                ELSE ResolveDiff(e.heap, e.history.diff)]

\* Environment.read in a new process: History.parse constructs every Package
\* anew, those of history.packages are the objects update_versions will
\* write.  snapshots and created keep, for each revision, the packages
\* snapshot as it was appended and the diff as it was created.
ObjRead(history) ==
    [history |-> [history EXCEPT
                    !.packages = [s \in DOMAIN history.packages |->
                                    [n \in DOMAIN history.packages[s] |-> Ref(<<0, n>>)]]],
     heap |-> [id \in {<<0, n>> : n \in DOMAIN Get(history.packages, "conda", EmptyFn)} |->
                 history.packages["conda"][id[2]]],
     snapshots |-> history.rpackages,
     created |-> history.diffs,
     diff_created |-> None]

\* PackageRevision.update_versions, writing the objects history.packages
\* holds
ObjUpdateVersions(e, dependencies) ==
    LET conda == Get(e.history.packages, "conda", EmptyFn)
        held == {conda[n].ref : n \in DOMAIN conda}
        source_dependencies == Get(dependencies, "conda", EmptyFn)
    IN  [e EXCEPT !.heap =
           [id \in DOMAIN e.heap |->
              IF id \notin held THEN e.heap[id]
              ELSE LET package_name == CHOOSE n \in DOMAIN conda : conda[n].ref = id
                       dependency == Get(source_dependencies, package_name,
                                         Package(package_name, NoSpec, NoVer, NoVer))
                   IN  [e.heap[id] EXCEPT
                          !.version = dependency.version,
                          !.build = IF dependency.build # NoVer
                                    THEN dependency.build ELSE @]]]

\* Diff.compute on the objects: an upserted entry is the Package object the
\* caller passed (requested: their identities), a removed entry is the object
\* history.packages holds, an updated entry is a new Package
ObjDiffCompute(e, dependencies, requested) ==
    LET diff == DiffCompute(dependencies, ResolvePackages(e.heap, e.history.packages),
                            {e.heap[id] : id \in requested}, "conda")
    IN  [s \in DOMAIN diff |->
           [sec \in DOMAIN diff[s] |->
              [n \in DOMAIN diff[s][sec] |->
                 IF sec = "remove" THEN e.history.packages[s][n]
                 ELSE IF \E id \in requested : e.heap[id].name = n
                 THEN Ref(CHOOSE id \in requested : e.heap[id].name = n)
                 ELSE diff[s][sec][n]]]]

\* the first statement of History.update_packages and of
\* History.remove_packages: self.diff = Diff.compute(...)
ObjSetDiff(e, diff) ==
    [e EXCEPT !.history.diff = diff, !.diff_created = ResolveDiff(e.heap, diff)]

\* PackageRevision.update_packages: history.packages holds the objects of
\* the caller
ObjUpdatePackages(e, requested) ==
    IF requested = {} THEN e
    ELSE [e EXCEPT !.history.packages =
            Put(@, "conda",
                [n \in DOMAIN Get(@, "conda", EmptyFn) \cup {e.heap[id].name : id \in requested} |->
                   IF \E id \in requested : e.heap[id].name = n
                   THEN Ref(CHOOSE id \in requested : e.heap[id].name = n)
                   ELSE @["conda"][n]])]

\* History.update_packages on the objects
ObjHistoryUpdatePackages(e, dependencies, requested) ==
    ObjUpdateVersions(
        ObjUpdatePackages(ObjSetDiff(e, ObjDiffCompute(e, dependencies, requested)),
                          requested),
        dependencies)

\* History.remove_packages on the objects
ObjHistoryRemovePackages(e, dependencies, name) ==
    ObjUpdateVersions(
        [ObjSetDiff(e, ObjDiffCompute(e, dependencies, {})) EXCEPT
           !.history.packages = remove_packages(@, {PackageFromSpec(NameSpec(name))}, "conda")],
        dependencies)

\* Environment.validate_packages on the objects, when it does not raise: the
\* removed names are popped
ObjValidatePackages(e, dependencies) ==
    [e EXCEPT !.history = validate_packages(@, dependencies, "conda")]

\* A variant of copy.deepcopy that returns the object it is given
SameObject(heap, packages) == packages

\* copy.deepcopy of history.packages: new Package objects that nothing else
\* holds
deepcopy(heap, packages) == ResolvePackages(heap, packages)

\* Revisions.append_revision on the objects.  fault: Debug.update raises
\* (get_pip_version runs `conda list`), after the four appends before it.
ObjAppendRevision(e, log, action, r, fault) ==
    [e EXCEPT
       !.history.logs = Append(@, log),
       !.history.actions = Append(@, action),
       !.history.rpackages = Append(@, deepcopy(e.heap, e.history.packages)),
       !.history.diffs = Append(@, e.history.diff),
       !.history.debug = IF fault THEN @
                         ELSE Append(@, DebugEntry(r, Len(e.history.logs) + 1)),
       !.snapshots = Append(@, ResolvePackages(e.heap, e.history.packages)),
       !.created = Append(@, e.diff_created)]

\* the end of CondaHandler.update_history_update_all: every conda package of
\* the history but python gets its name as spec
ObjSpecIsName(e) ==
    LET conda == e.history.packages["conda"]
        held == {conda[n].ref : n \in DOMAIN conda \ {"python"}}
    IN  [e EXCEPT !.heap =
           [id \in DOMAIN e.heap |->
              IF id \in held THEN [e.heap[id] EXCEPT !.spec = NameSpec(e.heap[id].name)]
              ELSE e.heap[id]]]

\* what is left of the live packages when a conda command drops at most one
\* of those it was not asked about
Kept(installed, name) ==
    {installed} \cup {Drop(installed, m) : m \in DOMAIN installed \ {name}}

\* the live packages after `conda install spec` returns successfully: the
\* package at a version the spec admits, or not there at all
CondaInstallOutcomes(installed, spec) ==
    LET versions == IF spec.version = NoVer THEN ResolvedVersions ELSE {spec.version}
    IN  UNION {{Put(kept, spec.name, Dependency(spec.name, v)) : v \in versions}
               \cup {Drop(kept, spec.name)} : kept \in Kept(installed, spec.name)}

\* the live packages after `conda remove name` returns successfully
CondaRemoveOutcomes(installed, name) ==
    {Drop(kept, name) : kept \in Kept(installed, name)}

\* the live packages after `conda update --all`: at most one package moves
\* to another version
CondaUpdateAllOutcomes(installed) ==
    {installed} \cup
    {Put(installed, n, Dependency(n, v)) :
       n \in DOMAIN installed, v \in ResolvedVersions}

\* the specs a user types for a package: the name, or the name with a version
UserSpecs(name) == {NameSpec(name)} \cup {SpecOf(name, v, NoVer) : v \in ResolvedVersions}

\* the process so far: its last command and how that ended (an exception ends
\* the process), its Environment object as the command left it (None when
\* the exception came before append_revision), the names validate_packages
\* warned about.  asked: the names of the packages the command was given.
Process(op, asked, outcome, e, warned) ==
    [op |-> op, asked |-> asked, outcome |-> outcome, env |-> e, warned |-> warned]

\* the command ran to its end: Environment.export writes the files
Exported(r, e, dependencies) ==
    local' = [local EXCEPT ![r] = EnvironmentExport(@, Resolved(e), dependencies)]

\* main.conda_install in a process that holds the Environment e: conda
\* installs, then CondaHandler._update_history and Environment.export
ProcInstall(r, spec, fault) ==
    /\ last.outcome = "ok"
    /\ Len(last.env.history.logs) < MaxRevs
    /\ UNCHANGED remote
    /\ \E installed \in CondaInstallOutcomes(live[r], spec) :
       \E dependencies \in {Dependencies(installed)}, id \in {<<Len(last.env.history.logs) + 1, spec.name>>} :
       \E e0 \in {[last.env EXCEPT !.heap = Put(@, id, PackageFromSpec(spec))]} :
       \E e1 \in {ObjHistoryUpdatePackages(e0, dependencies, {id})} :
       \E removed \in {ValidateRemoved(e1.history, dependencies, "conda")} :
         /\ live' = [live EXCEPT ![r] = installed]
         /\ IF ValidateRaises(e1.history, dependencies, {spec.name}, "conda")
            THEN /\ ~fault
                 /\ last' = Process("install", {spec.name}, "CondaEnvTrackerInstallError", None, {})
                 /\ UNCHANGED local
            ELSE \E e2 \in {ObjAppendRevision(
                               ObjValidatePackages(e1, dependencies),
                               Command("conda install", spec),
                               Command("conda install",
                                       get_package_specs(spec.name, dependencies["conda"])),
                               r, fault)} :
                   /\ last' = Process("install", {spec.name}, IF fault THEN "CondaEnvTrackerCondaError" ELSE "ok",
                                      e2, removed)
                   /\ IF fault THEN UNCHANGED local ELSE Exported(r, e2, dependencies)

\* main.conda_remove in a process that holds the Environment e
ProcRemove(r, name, fault) ==
    /\ last.outcome = "ok"
    /\ Len(last.env.history.logs) < MaxRevs
    /\ name \in DOMAIN live[r]
    /\ UNCHANGED remote
    /\ \E installed \in CondaRemoveOutcomes(live[r], name) :
       \E dependencies \in {Dependencies(installed)} :
         /\ live' = [live EXCEPT ![r] = installed]
         /\ IF "conda" \notin DOMAIN last.env.history.packages
            THEN /\ ~fault
                 /\ last' = Process("remove", {name}, "KeyError", None, {})
                 /\ UNCHANGED local
            ELSE \E e1 \in {ObjHistoryRemovePackages(last.env, dependencies, name)} :
                 \E removed \in {ValidateRemoved(e1.history, dependencies, "conda")} :
                 \E e2 \in {ObjAppendRevision(
                               ObjValidatePackages(e1, dependencies),
                               Command("conda remove", NameSpec(name)),
                               Command("conda remove", NameSpec(name)),
                               r, fault)} :
                   /\ last' = Process("remove", {name}, IF fault THEN "CondaEnvTrackerCondaError" ELSE "ok",
                                      e2, removed)
                   /\ IF fault THEN UNCHANGED local ELSE Exported(r, e2, dependencies)

\* main.conda_update_all in a process that holds the Environment e, no
\* package given
ProcUpdateAll(r, fault) ==
    /\ last.outcome = "ok"
    /\ Len(last.env.history.logs) < MaxRevs
    /\ UNCHANGED remote
    /\ \E installed \in CondaUpdateAllOutcomes(live[r]) :
       \E dependencies \in {Dependencies(installed)} :
       \E e1 \in {ObjHistoryUpdatePackages(last.env, dependencies, {})} :
       \E removed \in {ValidateRemoved(e1.history, dependencies, "conda")} :
       \E e2 \in {ObjAppendRevision(
                     ObjValidatePackages(e1, dependencies),
                     Command("conda update --all", NoSpec),
                     Command("conda update --all", NoSpec),
                     r, fault)} :
         /\ live' = [live EXCEPT ![r] = installed]
         /\ IF fault
            THEN /\ last' = Process("update all", {}, "CondaEnvTrackerCondaError", e2, removed)
                 /\ UNCHANGED local
            ELSE IF "conda" \notin DOMAIN e2.history.packages
            THEN /\ last' = Process("update all", {}, "KeyError", None, {})
                 /\ UNCHANGED local
            ELSE \E e3 \in {ObjSpecIsName(e2)} :
                   /\ last' = Process("update all", {}, "ok", e3, removed)
                   /\ Exported(r, e3, dependencies)

\* the next command runs in a new process: Environment.read
ProcRead(r) ==
    /\ last.op # "read"
    /\ last' = Process("read", {}, "ok", ObjRead(LocalHistory(r)), {})
    /\ UNCHANGED <<local, live, remote>>

\* Replica 1 has created its environment; a process has read it.
InitProcess ==
    /\ local = [r \in Replicas |-> IF r = 1 THEN CreatedDir("A", 1) ELSE EmptyDir]
    /\ live = [r \in Replicas |->
                 IF r = 1 THEN [n \in {"python"} |-> Dependency("python", 1)] ELSE EmptyFn]
    /\ remote = EmptyDir
    /\ last = Process("read", {}, "ok",
                      ObjRead(EnvironmentRead(CreatedDir("A", 1),
                                              Dependencies([n \in {"python"} |-> Dependency("python", 1)]))),
                      {})

NextProcess ==
    \/ \E name \in Asked, fault \in BOOLEAN :
         \E spec \in UserSpecs(name) : ProcInstall(1, spec, fault)
    \/ \E name \in Asked \cup {"python"}, fault \in BOOLEAN : ProcRemove(1, name, fault)
    \/ \E fault \in BOOLEAN : ProcUpdateAll(1, fault)
    \/ ProcRead(1)

SpecProcess == InitProcess /\ [][NextProcess]_vars

(***************************************************************************)
(* Package.__eq__ on its own: the two packages are drawn by the initial    *)
(* state, the one step compares them.                                      *)
(***************************************************************************)
\* packages with and without a version, a build and a version in the spec
SomePackages ==
    {Package(name, spec, version, build) :
       name \in Names,
       spec \in {NameSpec("pandas"), NameSpec("pytest"), SpecOf("pandas", 1, NoVer)},
       version \in {NoVer} \cup ResolvedVersions,
       build \in {NoVer} \cup ResolvedVersions}

InitPackageEq ==
    /\ Idle
    /\ \E p \in SomePackages, q \in SomePackages :
         last = [op |-> "packages", p |-> p, q |-> q]

CallPackageEq ==
    /\ last.op = "packages"
    /\ last' = [op |-> "__eq__", p |-> last.p, q |-> last.q,
                result |-> PackageEq(last.p, last.q)]
    /\ UNCHANGED <<local, live, remote>>

SpecPackageEq == InitPackageEq /\ [][CallPackageEq]_vars

(***************************************************************************)
(* Environment.validate on its own: the initial state draws the packages   *)
(* the history declares for each source and what the package managers      *)
(* list, the one step validates.                                           *)
(***************************************************************************)
\* Environment.sources
Sources == {"conda", "pip", "r"}

\* the package a user declares for each source besides python
Declarable == [conda |-> "pandas", pip |-> "pytest", r |-> "jsonlite"]

\* history.packages: python, and for each source of `declared` its package; a
\* source without packages has no key
DeclaredPackages(declared) ==
    [s \in declared \cup {"conda"} |->
       [n \in (IF s = "conda" THEN {"python"} ELSE {}) \cup
               (IF s \in declared THEN {Declarable[s]} ELSE {}) |->
          Package(n, NameSpec(n), 1, 1)]]

\* Environment.update_dependencies: get_dependencies always lists conda and
\* pip, get_r_dependencies is asked only when the history has R packages
UpdateDependencies(history, listed, python_version) ==
    [s \in {"conda", "pip"} \cup (IF "r" \in DOMAIN history.packages THEN {"r"} ELSE {}) |->
       [n \in (IF s = "conda" THEN {"python"} ELSE {}) \cup
               (IF s \in listed THEN {Declarable[s]} ELSE {}) |->
          Dependency(n, IF n = "python" THEN python_version ELSE 1)]]

InitValidate ==
    /\ Idle
    /\ \E declared \in SUBSET Sources, listed \in SUBSET Sources,
          python_version \in ResolvedVersions :
       \E history \in {[CreatedHistory("A", 1) EXCEPT !.packages = DeclaredPackages(declared)]} :
         last = [op |-> "environment", history |-> history,
                 dependencies |-> UpdateDependencies(history, listed, python_version)]

\* Environment.validate: the packages of every source are gathered and
\* handed to one validate_packages call, which looks at source "conda"
CallValidate ==
    /\ last.op = "environment"
    /\ \E raised \in {ValidateAllRaises(last.history, last.dependencies)} :
         last' = [op |-> "validate",
                  outcome |-> IF raised THEN "CondaEnvTrackerInstallError" ELSE "ok",
                  warned |-> IF raised THEN {}
                             ELSE ValidateRemoved(last.history, last.dependencies, "conda"),
                  history |-> IF raised THEN last.history
                              ELSE validate_packages(last.history, last.dependencies, "conda"),
                  dependencies |-> last.dependencies]
    /\ UNCHANGED <<local, live, remote>>

SpecValidate == InitValidate /\ [][CallValidate]_vars

(***************************************************************************)
(* push in steps: two replicas of one lineage install and push, and the    *)
(* reads and writes of the remote directory that their pushes make         *)
(* interleave.  A step is one access to the remote directory: get_history  *)
(* (the comparisons that follow it read nothing shared), or the            *)
(* shutil.copy of one file.                                                *)
(***************************************************************************)
\* the push a remote file was written by: the replica, and the number of
\* revisions its history had
PushId(r) == <<r, Len(LocalHistory(r).logs)>>

\* pc[r]: where replica r's push is; next[r]: the file of CopyFileNames it
\* copies next; outcome[r]: how its last push ended; origin[f]: the push that
\* wrote the remote file f; published: the actions of the histories that
\* pushes which ran to their end have copied
Steps(pc, next, outcome, origin, published) ==
    [op |-> "steps", pc |-> pc, next |-> next, outcome |-> outcome,
     origin |-> origin, published |-> published]

InitSteps ==
    /\ local = [r \in Replicas |-> CreatedDir("A", 1)]
    /\ live = [r \in Replicas |-> [n \in {"python"} |-> Dependency("python", 1)]]
    /\ remote = EmptyDir
    /\ last = Steps([r \in Replicas |-> "idle"], [r \in Replicas |-> 0],
                    [r \in Replicas |-> "none"], EmptyFn, {})

\* main.conda_install on a replica that is not pushing
StepInstall(r, name, version) ==
    /\ last.pc[r] = "idle"
    /\ \E env \in {LocalHistory(r)} :
         /\ Len(env.logs) < MaxRevs
         /\ \E installed \in {Put(live[r], name, Dependency(name, version))} :
            \E history \in {update_history_install(env, Dependencies(installed),
                                                   NameSpec(name), r)} :
              /\ live' = [live EXCEPT ![r] = installed]
              /\ local' = [local EXCEPT ![r] =
                             EnvironmentExport(@, history, Dependencies(installed))]
    /\ UNCHANGED <<remote, last>>

\* push.push up to copy_environment: remote_io.get_history() and the
\* comparisons
PushStart(r) ==
    /\ last.pc[r] = "idle"
    /\ \E verdict \in {PushVerdict(LocalHistory(r), RemoteHistory)} :
         last' = IF verdict = "copy"
                 THEN [last EXCEPT !.pc[r] = "copying", !.next[r] = 1,
                                   !.outcome[r] = "copying"]
                 ELSE [last EXCEPT !.outcome[r] = verdict]
    /\ UNCHANGED <<local, live, remote>>

\* EnvIO.copy_environment, one turn of its loop: the file is copied to the
\* remote directory if the local directory has it
PushCopy(r) ==
    /\ last.pc[r] = "copying"
    /\ \E i \in {last.next[r]} :
       \E file_name \in {CopyFileNames[i]} :
       \E exists \in {file_name \in DOMAIN local[r]} :
       \E origin \in {IF exists THEN Put(last.origin, file_name, PushId(r))
                      ELSE last.origin} :
         /\ remote' = IF exists THEN Put(remote, file_name, local[r][file_name])
                      ELSE remote
         /\ last' = IF i < Len(CopyFileNames)
                    THEN [last EXCEPT !.next[r] = i + 1, !.origin = origin]
                    ELSE [last EXCEPT !.pc[r] = "idle", !.next[r] = 0,
                                      !.outcome[r] = "pushed", !.origin = origin,
                                      !.published =
                                          @ \cup Range(LocalHistory(r).actions)]
    /\ UNCHANGED <<local, live>>

NextSteps ==
    \/ \E r \in Replicas, name \in Names, version \in Versions : StepInstall(r, name, version)
    \/ \E r \in Replicas : PushStart(r)
    \/ \E r \in Replicas : PushCopy(r)

SpecSteps == InitSteps /\ [][NextSteps]_vars

(***************************************************************************)
(* EnvIO.overwrite_local on its own: the initial state draws the files of  *)
(* the local directory of replica 1 and of the remote directory, the one   *)
(* step overwrites.                                                        *)
(***************************************************************************)
\* the files a directory may hold, and what a file may contain
FileNames == {HISTORY_FILE, ENV_FILE_EXPORT, REMOTE_FILE}
Contents == {"one", "two"}

\* the directories with some of these files
Directories == UNION {[names -> Contents] : names \in SUBSET FileNames}

InitOverwrite ==
    /\ \E local_dir \in Directories :
         /\ local = [r \in Replicas |-> IF r = 1 THEN local_dir ELSE EmptyDir]
         /\ last = [op |-> "directories", before |-> local_dir]
    /\ remote \in Directories
    /\ live = [r \in Replicas |-> EmptyFn]

\* EnvIO.overwrite_local(local_io, remote_io) when nothing in it raises
CallOverwriteLocal ==
    /\ last.op = "directories"
    /\ local' = [local EXCEPT ![1] = overwrite_local(@, remote)]
    /\ last' = [op |-> "overwrite_local", before |-> local[1]]
    /\ UNCHANGED <<live, remote>>

SpecOverwrite == InitOverwrite /\ [][CallOverwriteLocal]_vars

(***************************************************************************)
(* `cet update --channel` on its own: replica 1 has created its            *)
(* environment with some channels and appends channels again and again.    *)
(***************************************************************************)
\* the conda channels a user names
ChannelNames == {"main", "pro", "r"}

\* the lists of channels given to one call
ChannelLists == UNION {[1..n -> ChannelNames] : n \in 0..MaxLen}

RECURSIVE AppendChannelsFrom(_, _, _)
\* Environment.append_channels, its loop from the i-th channel given on
AppendChannelsFrom(channels, given, i) ==
    IF i > Len(given) THEN channels
    ELSE AppendChannelsFrom(IF given[i] \notin Range(channels)
                            THEN Append(channels, given[i]) ELSE channels,
                            given, i + 1)

\* A variant of Environment.append_channels that appends whatever it is given
AppendEveryChannel(channels, given) == channels \o given

\* Environment.append_channels, before it writes the history file
append_channels(channels, given) == AppendChannelsFrom(channels, given, 1)

\* the directory after Environment.create with these channels
CreatedWithChannels(channels) ==
    EnvironmentExport([f \in {REMOTE_FILE} |-> "remote"],
                      [CreatedHistory("A", 1) EXCEPT !.channels = channels],
                      Dependencies([n \in {"python"} |-> Dependency("python", 1)]))

InitChannels ==
    /\ \E first \in ChannelNames :
         local = [r \in Replicas |-> IF r = 1 THEN CreatedWithChannels(<<first>>)
                                     ELSE EmptyDir]
    /\ live = [r \in Replicas |->
                 IF r = 1 THEN [n \in {"python"} |-> Dependency("python", 1)] ELSE EmptyFn]
    /\ remote = EmptyDir
    /\ last = [op |-> "create"]

\* main.update_channels: Environment.read, then append_channels, which ends
\* with write_history_file
UpdateChannels(given) ==
    /\ \E env \in {LocalHistory(1)} :
       \E history \in {[env EXCEPT !.channels = append_channels(@, given)]} :
         /\ local' = [local EXCEPT ![1] = Put(@, HISTORY_FILE, HistoryExport(history))]
         /\ last' = [op |-> "append_channels", given |-> given, before |-> env.channels]
    /\ UNCHANGED <<live, remote>>

NextChannels == \E given \in ChannelLists : UpdateChannels(given)

SpecChannels == InitChannels /\ [][NextChannels]_vars

(***************************************************************************)
(* `cet sync`: the replicas install packages under the specs their users   *)
(* type, push, and synchronise.                                            *)
(***************************************************************************)
\* main.conda_install with the spec as the user typed it, the name or the
\* name with a version, the solver resolving the package to that version
InstallAs(r, spec) ==
    \E env \in {LocalHistory(r)} :
      /\ env # None
      /\ Len(env.logs) < MaxRevs
      /\ \E version \in {IF spec.version = NoVer THEN 1 ELSE spec.version} :
         \E installed \in {Put(live[r], spec.name, Dependency(spec.name, version))} :
         \E history \in {update_history_install(env, Dependencies(installed), spec, r)} :
           /\ live' = [live EXCEPT ![r] = installed]
           /\ local' = [local EXCEPT ![r] =
                          EnvironmentExport(@, history, Dependencies(installed))]
           /\ last' = [op |-> "install", r |-> r]
           /\ UNCHANGED remote

\* push.push as main.sync calls it, on the environment that pull returned:
\* how it ends and the remote directory it leaves
SyncPush(dir, installed, fault) ==
    LET verdict == PushVerdict(EnvironmentRead(dir, Dependencies(installed)), RemoteHistory)
    IN  IF verdict # "copy" THEN [outcome |-> verdict, dir |-> remote]
        ELSE LET copied == copy_environment(dir, remote, fault)
             IN  [outcome |-> IF copied.raised THEN "OSError" ELSE "pushed",
                  dir |-> copied.dir]

\* main.sync: Environment.read, pull.pull and, when that returns, push.push
Sync(r) ==
    \E local_history \in {LocalHistory(r)}, remote_history \in {RemoteHistory} :
    \E case \in {PullCase(local_history, remote_history)} :
        \E yes \in BOOLEAN, answer \in BOOLEAN, ok \in BOOLEAN, fail \in 0..MaxRevs :
          /\ PullConsults(local_history, remote_history, case, yes, answer, ok, fail)
          /\ \E res \in {PullResult(r, local_history, remote_history, case,
                                    yes, answer, ok, fail)} :
              /\ local' = [local EXCEPT ![r] = res.dir]
              /\ live' = [live EXCEPT ![r] = res.live]
              /\ IF res.outcome \in {"Nothing to pull.", "replaced", "merged"}
                 THEN \E fault \in 0..Len(CopyFileNames) :
                      \E pushed \in {SyncPush(res.dir, res.live, fault)} :
                        /\ fault # 0 => /\ CopyFileNames[fault] \in DOMAIN res.dir
                                        /\ pushed.outcome = "OSError"
                        /\ remote' = pushed.dir
                        /\ last' = [op |-> "sync", r |-> r, pull |-> res.outcome,
                                    outcome |-> pushed.outcome]
                 ELSE /\ remote' = remote
                      /\ last' = [op |-> "sync", r |-> r, pull |-> res.outcome,
                                  outcome |-> res.outcome]

NextSync ==
    \/ \E r \in Replicas, name \in Asked :
         \E spec \in {NameSpec(name), SpecOf(name, 1, NoVer)} : InstallAs(r, spec)
    \/ \E r \in Replicas : Push(r)
    \/ \E r \in Replicas : Sync(r)

SpecSync == Init /\ [][NextSync]_vars

(***************************************************************************)
(* Diff.compute on its own: the initial state draws the packages of the    *)
(* history, the dependencies conda lists and the packages just asked for,  *)
(* the one step computes the diff and exports it.                          *)
(***************************************************************************)
\* the maps from some of the names to a package at one of the versions
PackagesAt(names, versions) ==
    UNION {[chosen -> versions] : chosen \in SUBSET names}

\* history.packages["conda"]: user-requested packages with the versions they
\* had when the history was last updated
SomeCurrentPackages ==
    {[n \in DOMAIN at |-> Package(n, NameSpec(n), at[n], at[n])] :
       at \in PackagesAt(Names, ResolvedVersions)}

\* what `conda list` shows
SomeDependencies ==
    {[n \in DOMAIN at |-> Dependency(n, at[n])] : at \in PackagesAt(Names, ResolvedVersions)}

\* the packages of a command: one Package.from_spec per name, the spec a name
\* or a name with a version
SomeUpsertPackages ==
    {{PackageFromSpec(IF at[n] = NoVer THEN NameSpec(n) ELSE SpecOf(n, at[n], NoVer)) :
        n \in DOMAIN at} : at \in PackagesAt(Names, {NoVer, 1})}

InitDiff ==
    /\ Idle
    /\ \E packages \in SomeCurrentPackages, dependencies \in SomeDependencies,
          upsert_packages \in SomeUpsertPackages :
         last = [op |-> "arguments",
                 dependencies |-> Dependencies(dependencies),
                 packages |-> [s \in {"conda"} |-> packages],
                 upsert_packages |-> upsert_packages]

CallDiffCompute ==
    /\ last.op = "arguments"
    /\ \E diff \in {DiffCompute(last.dependencies, last.packages,
                               last.upsert_packages, "conda")} :
         last' = [op |-> "compute", dependencies |-> last.dependencies,
                  packages |-> last.packages, upsert_packages |-> last.upsert_packages,
                  diff |-> diff, exported |-> DiffExport(diff)]
    /\ UNCHANGED <<local, live, remote>>

SpecDiff == InitDiff /\ [][CallDiffCompute]_vars

(***************************************************************************)
(* Properties of push                                                      *)
(***************************************************************************)
\* longer is shorter followed by one more entry
ExtendsByOne(longer, shorter) ==
    /\ Len(longer) = Len(shorter) + 1
    /\ SubSeq(longer, 1, Len(shorter)) = shorter

\* the ways a push or a pull ends without an error
Completed == {"Nothing to push.", "pushed", "Nothing to pull.", "replaced", "merged"}

\* the step is a push on replica r
PushBy(r) == last'.op = "push" /\ last'.r = r

\* the step is a pull on replica r
PullBy(r) == last'.op = "pull" /\ last'.r = r

\* C1: when the remote history exists and its actions or its logs are not an
\* ordered subset of those of the pushing replica's history, push raises
\* CondaEnvTrackerPushError and the remote directory is left as it was: no
\* file of it is created or modified.
C1_PushRejectedLeavesRemote ==
    [][\A r \in Replicas : PushBy(r) =>
         \A local_history \in {LocalHistory(r)}, remote_history \in {RemoteHistory} :
           ( /\ local_history # None
             /\ remote_history # None
             /\ \/ ~is_ordered_subset(local_history.actions, remote_history.actions)
                \/ ~is_ordered_subset(local_history.logs, remote_history.logs) )
           => /\ last'.outcome = "CondaEnvTrackerPushError"
              /\ remote' = remote]_vars

\* C1, its case: a push has just been rejected, the remote holding an action
\* sequence that is not an ordered subset of the pushing replica's
C1_Witness ==
    /\ last.op = "push"
    /\ last.outcome = "CondaEnvTrackerPushError"
    /\ RemoteHistory # None
    /\ ~is_ordered_subset(LocalHistory(last.r).actions, RemoteHistory.actions)

\* C2: when the remote's actions and logs are those of the pushing replica
\* without its last entry, a push whose file copies do not fail succeeds, and
\* afterwards the remote history file is the replica's: the history read from
\* the remote directory equals the local history.
C2_FastForwardPush ==
    [][\A r \in Replicas : (PushBy(r) /\ last'.outcome # "OSError") =>
         \A local_history \in {LocalHistory(r)}, remote_history \in {RemoteHistory} :
           ( /\ local_history # None
             /\ remote_history # None
             /\ ExtendsByOne(local_history.actions, remote_history.actions)
             /\ ExtendsByOne(local_history.logs, remote_history.logs) )
           => /\ last'.outcome = "pushed"
              /\ HISTORY_FILE \in DOMAIN remote'
              /\ remote'[HISTORY_FILE] = local[r][HISTORY_FILE]
              /\ HistoryEq(get_history(remote'), local_history)
              /\ local' = local]_vars

\* C2, its case: a push has just succeeded on a remote whose actions were the
\* pushed ones without the last, and the remote history equals the local one
C2_Witness ==
    /\ last.op = "push"
    /\ last.outcome = "pushed"
    /\ last.before # <<>>
    /\ ExtendsByOne(RemoteHistory.actions, last.before)
    /\ HistoryEq(RemoteHistory, LocalHistory(last.r))

\* C5: a push or a pull that ends in an error leaves the local directories
\* and the remote directory exactly as they were before the call.
C5_ErrorsLeaveNoPartialWrites ==
    [][(last'.op \in {"push", "pull"} /\ last'.outcome \notin Completed)
         => (local' = local /\ remote' = remote)]_vars

(***************************************************************************)
(* Properties of pull                                                      *)
(***************************************************************************)
\* the pull of the step has consent: the yes flag, or the prompt accepted
Consent == last'.yes \/ last'.answer

\* the two histories both exist, with different ids
IdsDiffer(local_history, remote_history) ==
    /\ local_history # None
    /\ remote_history # None
    /\ local_history.id # remote_history.id

\* the two histories both exist, with the same id
IdsMatch(local_history, remote_history) ==
    /\ local_history # None
    /\ remote_history # None
    /\ local_history.id = remote_history.id

\* the history of replica r after the step
LocalHistoryAfter(r) == EnvironmentRead(local'[r], Dependencies(live'[r]))

\* C3: when local and remote have the same id, each has actions the other
\* lacks, and the merge is accepted (and no conda command fails), the pull
\* completes with a merged history: its logs are remote's logs followed by the
\* local-only logs in local order, its actions start with remote's actions and
\* go on with one replayed action per local-only log, and its packages are
\* those of both sides.
C3_MergeKeepsBothSides ==
    [][\A r \in Replicas :
         (PullBy(r) /\ Consent /\ last'.outcome # "CondaEnvTrackerCondaError") =>
         \A local_history \in {LocalHistory(r)}, remote_history \in {RemoteHistory} :
           ( /\ IdsMatch(local_history, remote_history)
             /\ Range(local_history.actions) \ Range(remote_history.actions) # {}
             /\ Range(remote_history.actions) \ Range(local_history.actions) # {} )
           => /\ last'.outcome = "merged"
              /\ \A merged \in {LocalHistoryAfter(r)} :
                   /\ merged.logs =
                        remote_history.logs \o ExtraLogs(local_history, remote_history)
                   /\ Len(merged.actions) = Len(merged.logs)
                   /\ SubSeq(merged.actions, 1, Len(remote_history.actions))
                        = remote_history.actions
                   /\ DOMAIN merged.packages["conda"] =
                        DOMAIN local_history.packages["conda"]
                          \cup DOMAIN remote_history.packages["conda"]]_vars

\* C4: whenever a prompt of pull is declined, pull raises
\* CondaEnvTrackerCreationError if the ids differ and CondaEnvTrackerPullError
\* otherwise, and the local directories, the live environments and the
\* remote directory are exactly as before the call.
C4_DeclinedPromptChangesNothing ==
    [][\A r \in Replicas :
         (PullBy(r) /\ PromptOf(last'.case, last'.yes) # "none" /\ ~last'.answer)
         => /\ IF IdsDiffer(LocalHistory(r), RemoteHistory)
               THEN last'.outcome = "CondaEnvTrackerCreationError"
               ELSE last'.outcome \in {"CondaEnvTrackerPullError: different order",
                                       "CondaEnvTrackerPullError: conflict"}
            /\ local' = local
            /\ live' = live
            /\ remote' = remote]_vars

\* C4, its case: the prompt of a pull on diverged histories has just been
\* declined
C4_Witness ==
    /\ last.op = "pull"
    /\ last.case = "conflict"
    /\ ~last.yes
    /\ ~last.answer
    /\ last.outcome = "CondaEnvTrackerPullError: conflict"
    /\ Range(LocalHistory(last.r).actions) \ Range(RemoteHistory.actions) # {}
    /\ Range(RemoteHistory.actions) \ Range(LocalHistory(last.r).actions) # {}

\* C6: when local and remote histories both exist with different ids, pull
\* handles this first: without consent it raises
\* CondaEnvTrackerCreationError and changes nothing, and with consent (and no
\* conda command failing) the local history afterwards has remote's id and
\* equals remote's history.
C6_DifferentIdsHandledFirst ==
    [][\A r \in Replicas : (PullBy(r) /\ last'.outcome # "CondaEnvTrackerCondaError") =>
         \A local_history \in {LocalHistory(r)}, remote_history \in {RemoteHistory} :
           IdsDiffer(local_history, remote_history)
           => IF Consent
              THEN \A adopted \in {LocalHistoryAfter(r)} :
                     /\ adopted # None
                     /\ adopted.id = remote_history.id
                     /\ HistoryEq(remote_history, adopted)
              ELSE /\ last'.outcome = "CondaEnvTrackerCreationError"
                   /\ local' = local
                   /\ live' = live]_vars

\* C7 as the specification states it: with matching ids, pull ends with
\* "Nothing to pull." exactly when the remote history is absent, or local's
\* actions are an ordered subset of remote's and remote's actions are an
\* ordered subset of local's.
C7_NothingToPullWhenBothWays ==
    [][\A r \in Replicas : PullBy(r) =>
         \A local_history \in {LocalHistory(r)}, remote_history \in {RemoteHistory} :
           ~IdsDiffer(local_history, remote_history)
           => (last'.outcome = "Nothing to pull."
                 <=> \/ remote_history = None
                     \/ /\ local_history # None
                        /\ is_ordered_subset(remote_history.actions, local_history.actions)
                        /\ is_ordered_subset(local_history.actions, remote_history.actions))]_vars

\* C7, amended: with matching ids, pull ends with "Nothing to pull." exactly
\* when the remote history is absent, or the local history exists and remote's
\* actions are an ordered subset of local's (local equals remote or is ahead
\* of it).
C7_NothingToPullWhenRemoteNotAhead ==
    [][\A r \in Replicas : PullBy(r) =>
         \A local_history \in {LocalHistory(r)}, remote_history \in {RemoteHistory} :
           ~IdsDiffer(local_history, remote_history)
           => (last'.outcome = "Nothing to pull."
                 <=> \/ remote_history = None
                     \/ /\ local_history # None
                        /\ is_ordered_subset(local_history.actions, remote_history.actions))]_vars

\* C7, its case: a pull has just ended with "Nothing to pull." on a replica
\* that is ahead of the remote
C7_Witness ==
    /\ last.op = "pull"
    /\ last.outcome = "Nothing to pull."
    /\ IdsMatch(LocalHistory(last.r), RemoteHistory)
    /\ Len(LocalHistory(last.r).actions) > Len(RemoteHistory.actions)
    /\ ~is_ordered_subset(RemoteHistory.actions, LocalHistory(last.r).actions)

\* C8: when the remote history is absent, or it has the local history's id
\* and remote's actions are an ordered subset of local's, pull ends with
\* "Nothing to pull.": the local history and files are unchanged and the
\* environment is not updated.
C8_NothingToPullChangesNothing ==
    [][\A r \in Replicas : PullBy(r) =>
         \A local_history \in {LocalHistory(r)}, remote_history \in {RemoteHistory} :
           ( \/ remote_history = None
             \/ /\ IdsMatch(local_history, remote_history)
                /\ is_ordered_subset(local_history.actions, remote_history.actions) )
           => /\ last'.outcome = "Nothing to pull."
              /\ local' = local
              /\ live' = live
              /\ remote' = remote]_vars

\* C8, its case: a pull has just ended with "Nothing to pull." on a replica
\* whose history equals a remote history of more than one revision
C8_Witness ==
    /\ last.op = "pull"
    /\ last.outcome = "Nothing to pull."
    /\ IdsMatch(LocalHistory(last.r), RemoteHistory)
    /\ LocalHistory(last.r).actions = RemoteHistory.actions
    /\ Len(RemoteHistory.actions) > 1

\* C9: when the remote history exists and the local history is absent, or has
\* remote's id and actions that are a strict ordered subset of remote's, pull
\* (no conda command failing) overwrites local with remote without prompting,
\* and afterwards the local history equals the remote history.
C9_LocalBehindIsOverwritten ==
    [][\A r \in Replicas : (PullBy(r) /\ last'.outcome # "CondaEnvTrackerCondaError") =>
         \A local_history \in {LocalHistory(r)}, remote_history \in {RemoteHistory} :
           ( /\ remote_history # None
             /\ \/ local_history = None
                \/ /\ IdsMatch(local_history, remote_history)
                   /\ is_ordered_subset(remote_history.actions, local_history.actions)
                   /\ local_history.actions # remote_history.actions )
           => /\ PromptOf(last'.case, last'.yes) = "none"
              /\ last'.outcome = "replaced"
              /\ \A replaced \in {LocalHistoryAfter(r)} :
                   /\ HistoryEq(remote_history, replaced)
                   /\ replaced.logs = remote_history.logs
                   /\ replaced.actions = remote_history.actions]_vars

\* C10: with matching ids, pull takes its "same packages, different order"
\* branch exactly when remote's actions and local's actions are equal as sets
\* and neither sequence is an ordered subset of the other; the branch prompts
\* unless the yes flag is set, and a decline raises CondaEnvTrackerPullError.
C10_DifferentOrderBranch ==
    [][\A r \in Replicas : PullBy(r) =>
         \A local_history \in {LocalHistory(r)}, remote_history \in {RemoteHistory} :
           IdsMatch(local_history, remote_history)
           => /\ last'.case = "different order"
                 <=> /\ Range(remote_history.actions) = Range(local_history.actions)
                     /\ ~is_ordered_subset(local_history.actions, remote_history.actions)
                     /\ ~is_ordered_subset(remote_history.actions, local_history.actions)
              /\ (last'.case = "different order" /\ ~Consent)
                   => last'.outcome = "CondaEnvTrackerPullError: different order"]_vars


IsSubsequence(set, subset) ==
    \E f \in [1..Len(subset) -> 1..Len(set)] :
        /\ \A i \in 1..Len(subset) : set[f[i]] = subset[i]
        /\ \A i, j \in 1..Len(subset) : i < j => f[i] < f[j]

\* C12: is_ordered_subset(set, subset) is true exactly when every element of
\* subset appears in set, compared by equality, in the same relative order,
\* not necessarily contiguously: true for ([a,b,c], [a,c]), false for
\* ([a,b,c], [c,a]) and for ([a,b], [a,b,c]).
C12_OrderedSubsetIsSubsequence ==
    /\ last.op = "is_ordered_subset"
       => (last.result <=> IsSubsequence(last.set, last.subset))
    /\ (last.op = "is_ordered_subset" /\ last.set = <<"a", "b", "c">>)
       => /\ last.subset = <<"a", "c">> => last.result
          /\ last.subset = <<"c", "a">> => ~last.result
    /\ (last.op = "is_ordered_subset" /\ last.set = <<"a", "b">>
        /\ last.subset = <<"a", "b", "c">>) => ~last.result

\* C12, its case: the function has answered for a list and a non-contiguous
\* ordered part of it
C12_Witness ==
    /\ last.op = "is_ordered_subset"
    /\ last.set = <<"a", "b", "c">>
    /\ last.subset = <<"a", "c">>
    /\ last.result


\* shorter is the head of longer
IsPrefix(shorter, longer) ==
    /\ Len(shorter) <= Len(longer)
    /\ SubSeq(longer, 1, Len(shorter)) = shorter

\* C13: every push that changes the remote is a fast-forward: the remote's
\* action and log sequences before the push are a prefix of its sequences
\* after the push.
C13_PushKeepsRemotePrefix ==
    [][\A r \in Replicas : PushBy(r) =>
         \A before \in {RemoteHistory}, after \in {get_history(remote')} :
           before # None
           => /\ after # None
              /\ IsPrefix(before.actions, after.actions)
              /\ IsPrefix(before.logs, after.logs)]_vars

\* C13 as the code has it: the remote's action and log sequences before a
\* push are an ordered subset of its sequences after the push, every entry
\* kept and in the same order, though not necessarily at the head.
C13_PushKeepsRemoteOrderedSubset ==
    [][\A r \in Replicas : PushBy(r) =>
         \A before \in {RemoteHistory}, after \in {get_history(remote')} :
           before # None
           => /\ after # None
              /\ IsSubsequence(after.actions, before.actions)
              /\ IsSubsequence(after.logs, before.logs)]_vars

\* C13, its case: a push has just replaced a remote history by one that
\* holds the former actions in order but not at its head
C13_Witness ==
    /\ last.op = "push"
    /\ last.outcome = "pushed"
    /\ last.before # <<>>
    /\ RemoteHistory.actions # last.before
    /\ IsSubsequence(RemoteHistory.actions, last.before)
    /\ ~IsPrefix(last.before, RemoteHistory.actions)

(***************************************************************************)
(* Properties of the History object of a process                           *)
(***************************************************************************)
\* the command of the process ran to its end
Done == last.outcome = "ok"

\* C14: for every History h a process reaches through create, install,
\* remove and update-all, History.parse(h.export()) == h, where == compares
\* name, id, channels, revisions and packages.
C14_ParseExportRoundTrip ==
    Done => \A h \in {Resolved(last.env)} : HistoryEq(HistoryParse(HistoryExport(h)), h)

\* the Environment object of the process, when the last command left one
HasEnv == last.env # None

\* C15: in every state, the one left behind by an append that fails partway
\* included, the five revision sequences (logs, actions, packages, diffs,
\* debug) have the same length.
C15_RevisionSequencesSameLength ==
    HasEnv => \A h \in {last.env.history} :
                /\ Len(h.actions) = Len(h.logs)
                /\ Len(h.rpackages) = Len(h.logs)
                /\ Len(h.diffs) = Len(h.logs)
                /\ Len(h.debug) = Len(h.logs)

\* C16: once a revision is appended its packages snapshot never changes:
\* whatever install, remove, update-all or spec rewrite is applied to
\* history.packages later, revisions.packages[i] reads as it did when it was
\* appended.
C16_SnapshotsNeverChange ==
    HasEnv => \A i \in 1..Len(last.env.history.rpackages) :
                ResolvePackages(last.env.heap, last.env.history.rpackages[i])
                  = last.env.snapshots[i]

\* C16, its case: update-all has rewritten the spec of a package of
\* history.packages after the revision was appended, and the snapshot of that
\* revision still has the spec the user gave
C16_Witness ==
    /\ Done
    /\ last.op = "update all"
    /\ \E n \in Asked :
         /\ "conda" \in DOMAIN last.env.history.packages
         /\ n \in DOMAIN last.env.history.packages["conda"]
         /\ Deref(last.env.heap, last.env.history.packages["conda"][n]).spec = NameSpec(n)
         /\ last.env.history.rpackages[Len(last.env.history.rpackages)]["conda"][n].spec
              # NameSpec(n)

\* C17: a Diff is never mutated after creation: the upsert and remove entries
\* of every diff of the history (names, specs, versions, builds) read as they
\* did when Diff.compute returned them.
C17_DiffsNeverChange ==
    HasEnv => \A i \in 1..Len(last.env.history.diffs) :
                ResolveDiff(last.env.heap, last.env.history.diffs[i]) = last.env.created[i]

(***************************************************************************)
(* Properties of Package.__eq__                                            *)
(***************************************************************************)
\* C18: for every ordered pair of packages (p, q), p == q is true exactly
\* when they have the same name, the same spec and, when both specify a
\* version (a build), the same version (build).
C18_PackageEquality ==
    last.op = "__eq__" =>
      \A p \in {last.p}, q \in {last.q} :
        last.result <=> /\ p.name = q.name
                        /\ p.spec = q.spec
                        /\ (p.version # NoVer /\ q.version # NoVer) => p.version = q.version
                        /\ (p.build # NoVer /\ q.build # NoVer) => p.build = q.build

\* the step is an install or a remove of the process that got as far as
\* validate_packages and on which no Debug.update failed
InstallOrRemove ==
    /\ last'.op \in {"install", "remove"}
    /\ last'.outcome \in {"ok", "CondaEnvTrackerInstallError"}

\* the user-requested packages of the history before the step that conda no
\* longer lists after it, the ones the command was given aside
Dropped(r) ==
    {n \in DOMAIN Get(last.env.history.packages, "conda", EmptyFn) \ last'.asked :
        n \notin DOMAIN live'[r]}

\* C20: an install or remove raises CondaEnvTrackerInstallError only when a
\* package the command itself asked for is missing afterwards; otherwise, when
\* conda dropped a previously user-requested package, the command ends without
\* raising, has warned about that package and has removed it from
\* history.packages.
C20_DroppedPackageWarnedAndRemoved ==
    [][InstallOrRemove =>
         \A dropped \in {Dropped(1)} :
           /\ last'.outcome = "CondaEnvTrackerInstallError"
              <=> (last'.op = "install" /\ ~(last'.asked \subseteq DOMAIN live'[1]))
           /\ last'.outcome = "ok"
              => /\ dropped \subseteq last'.warned
                 /\ \A n \in dropped :
                      n \notin DOMAIN Get(last'.env.history.packages, "conda", EmptyFn)]_vars

\* C20, its case: an install that ended without raising has warned about a
\* user-requested package that conda dropped and the history no longer has
C20_Witness ==
    /\ Done
    /\ last.op = "install"
    /\ "python" \in last.warned
    /\ "python" \notin DOMAIN live[1]
    /\ "python" \notin DOMAIN last.env.history.packages["conda"]
    /\ last.asked \subseteq DOMAIN last.env.history.packages["conda"]

C21_RemoteFilesFromOnePush ==
    (last.op = "steps" /\ {HISTORY_FILE, ENV_FILE_EXPORT} \subseteq DOMAIN remote)
    => \/ last.origin[HISTORY_FILE] = last.origin[ENV_FILE_EXPORT]
       \/ {dependency[1] : dependency \in remote[ENV_FILE_EXPORT].dependencies}
            = DOMAIN Get(RemoteHistory.packages, "conda", EmptyFn)

\* C24: with the steps of the pushes of two replicas interleaved, every
\* action that a push which ran to its end has published is in the history of
\* the remote directory ever after.
C24_PublishedRevisionsStay ==
    last.op = "steps"
    => \A action \in last.published :
         \E remote_history \in {RemoteHistory} :
           /\ remote_history # None
           /\ action \in Range(remote_history.actions)

\* C22: after overwrite_local the local directory holds every file of the
\* remote directory with the remote's content, every file that only the local
\* directory had with the content it had, and no other file.
C22_OverwriteLocalKeepsLocalOnlyFiles ==
    last.op = "overwrite_local"
    => /\ DOMAIN local[1] = DOMAIN remote \cup DOMAIN last.before
       /\ \A f \in DOMAIN remote : local[1][f] = remote[f]
       /\ \A f \in DOMAIN last.before \ DOMAIN remote : local[1][f] = last.before[f]

\* C22, its case: the overwrite replaced a history file whose content
\* differed and left remote.yaml, which the remote does not have
C22_Witness ==
    /\ last.op = "overwrite_local"
    /\ HISTORY_FILE \in DOMAIN last.before
    /\ HISTORY_FILE \in DOMAIN remote
    /\ last.before[HISTORY_FILE] # remote[HISTORY_FILE]
    /\ local[1][HISTORY_FILE] = remote[HISTORY_FILE]
    /\ REMOTE_FILE \in DOMAIN last.before \ DOMAIN remote
    /\ local[1][REMOTE_FILE] = last.before[REMOTE_FILE]

\* the place of the first occurrence of a channel in a list
First(list, channel) == CHOOSE i \in 1..Len(list) :
                          /\ list[i] = channel
                          /\ \A j \in 1..(i - 1) : list[j] # channel

\* C23: every append_channels call leaves the channels that were there where
\* they were, adds none of them again, and adds after them the given channels
\* that were not there, each once, in the order in which they were given.
C23_AppendChannelsKeepsOrder ==
    last.op = "append_channels"
    => \A before \in {last.before}, given \in {last.given},
          after \in {get_history(local[1]).channels} :
       \A added \in {SubSeq(after, Len(before) + 1, Len(after))} :
         /\ Len(after) >= Len(before)
         /\ SubSeq(after, 1, Len(before)) = before
         /\ Range(added) = Range(given) \ Range(before)
         /\ \A k, l \in 1..Len(added) :
              k < l => First(given, added[k]) < First(given, added[l])

\* C23, its case: a call was given a channel that was there and, after it,
\* two that were not; only these two were added, in that order
C23_Witness ==
    /\ last.op = "append_channels"
    /\ Len(last.given) = 3
    /\ last.given[1] \in Range(last.before)
    /\ last.given[2] \notin Range(last.before)
    /\ last.given[3] \notin Range(last.before) \cup {last.given[2]}
    /\ get_history(local[1]).channels = last.before \o <<last.given[2], last.given[3]>>

C26_PushLeavesOtherLineage ==
    [][\A r \in Replicas :
         (PushBy(r) /\ IdsDiffer(LocalHistory(r), RemoteHistory)) => remote' = remote]_vars

\* C27: when the pull of a sync has returned without an error, the push that
\* follows it at once is not rejected with CondaEnvTrackerPushError.
C27_SyncPushNotRejected ==
    (last.op = "sync" /\ last.pull \in {"Nothing to pull.", "replaced", "merged"})
    => last.outcome # "CondaEnvTrackerPushError"

\* a section of the conda part of the computed diff, empty when it is not there
Section(name) == Get(Get(last.diff, "conda", EmptyFn), name, EmptyFn)

\* the names of the packages handed to Diff.compute as upsert_packages
Explicit == {p.name : p \in last.upsert_packages}

\* the names in both the package map and the dependencies, with versions that
\* differ
Changed ==
    {n \in DOMAIN last.packages["conda"] \cap DOMAIN last.dependencies["conda"] :
       last.packages["conda"][n].version # last.dependencies["conda"][n].version}

\* C28: Diff.compute puts in remove exactly the packages of the current map
\* whose name the dependencies do not have, and in upsert the packages handed
\* to it together with the packages in both whose resolved version differs,
\* these with the resolved version and build, the package handed to it
\* standing for a name that is in both groups.
C28_DiffComputeSections ==
    last.op = "compute"
    => /\ DOMAIN Section("remove")
            = DOMAIN last.packages["conda"] \ DOMAIN last.dependencies["conda"]
       /\ \A n \in DOMAIN Section("remove") : Section("remove")[n] = last.packages["conda"][n]
       /\ DOMAIN Section("upsert") = Explicit \cup Changed
       /\ \A n \in DOMAIN Section("upsert") :
            IF n \in Explicit THEN Section("upsert")[n] \in last.upsert_packages
            ELSE /\ Section("upsert")[n].name = n
                 /\ Section("upsert")[n].spec = last.packages["conda"][n].spec
                 /\ Section("upsert")[n].version = last.dependencies["conda"][n].version
                 /\ Section("upsert")[n].build = last.dependencies["conda"][n].build

\* C28, its case: pandas was handed to Diff.compute and its resolved version
\* differs as well, pytest is gone from the dependencies
C28_Witness ==
    /\ last.op = "compute"
    /\ "pandas" \in Explicit \cap Changed
    /\ Section("upsert")["pandas"] \in last.upsert_packages
    /\ "pytest" \in DOMAIN Section("remove")

\* C29: for a source with nothing to upsert and nothing to remove,
\* Diff.compute leaves the source out of the diff, and so does the exported
\* form of the diff.
C29_EmptySourceOmitted ==
    (last.op = "compute" /\ DOMAIN Section("upsert") = {} /\ DOMAIN Section("remove") = {})
    => /\ "conda" \notin DOMAIN last.diff
       /\ "conda" \notin DOMAIN last.exported

\* the names and the specs of the packages of each source
NamesAndSpecs(packages) ==
    [s \in DOMAIN packages |->
       [n \in DOMAIN packages[s] |-> <<packages[s][n].name, packages[s][n].spec>>]]

\* C30: when an install, a remove or an update-all has run to its end, the
\* packages snapshot of the last revision has, for each source, the names
\* and the specs of the current packages of the history.
C30_LastSnapshotIsCurrentPackages ==
    (Done /\ last.op \in {"install", "remove", "update all"})
    => \A h \in {Resolved(last.env)} :
         NamesAndSpecs(h.rpackages[Len(h.rpackages)]) = NamesAndSpecs(h.packages)

=============================================================================
